---- MODULE Spec2Model ----
(***************************************************************************)
(* Query execution, caching and identity resolution of the Kiro users      *)
(* dashboard (src/app/app.py).  One script run of main() is modelled as a  *)
(* sequence of steps, one per blocking call (a backend call or a sleep).   *)
(* Time is kept as the age of every st.cache_data entry.                   *)
(***************************************************************************)
EXTENDS Integers, Sequences, FiniteSets, TLC

VARIABLES
    config,      \* GLUE_TABLE_NAME and IDENTITY_STORE_ID (from config import *)
    cache,       \* st.cache_data store: key -> [val, age]
    clients,     \* st.cache_resource store: the boto3 clients created so far
    pc,          \* position of the script run
    step,        \* index into Page of the section being rendered
    runs,        \* number of script runs started
    table_name,  \* main: table_name
    qid,         \* execute_athena_query: qid
    result,      \* execute_athena_query: result['QueryExecution']['Status']
    df,          \* main: the DataFrame of the section's query
    todo,        \* get_usernames_batch: identifiers still to resolve
    umap,        \* get_usernames_batch: mapping built so far / returned
    error,       \* the exception that reached main's handler, or NoError
    nextQid,     \* Athena: number of query executions started
    slept,       \* number of sleeps so far (bounds the model)
    trace,       \* backend calls made by the cached call in progress
    refresh,     \* main: refresh (the button was pressed for this run)
    lookup,      \* the last st.cache_data lookup: its key and outcome
    cleared,     \* keys dropped by a refresh and not requested since
    looked,      \* identifier -> time since its last describe_user call
    runlog,      \* this run's queries: submitted, ended, fetched, served from cache
    raisers,     \* keys whose last call raised and that were not requested since
    born,        \* cached batch -> identifier -> time since get_username produced its name
    fallbacks,   \* identifiers whose cached name is the fallback of a lookup that raised
    call,        \* a helper called on its own: the function and its arguments
    ret          \* what that call returned or raised

vars == <<config, cache, clients, pc, step, runs, table_name, qid, result, df,
          todo, umap, error, nextQid, slept, trace,
          refresh, lookup, cleared, looked, runlog, raisers,
          born, fallbacks, call, ret>>

----------------------------------------------------------------------------
(* Bounds of the model *)

MaxRuns == 2
MaxSleeps == 1
MaxPolls == 4

(* Program constants *)

TTL_LONG == 3600
TTL_QUERY == 300
SleepInterval == 1

(* User think time before a script run *)
Waits == {1, TTL_QUERY + 1, TTL_LONG + 1}

NoEntry == [none |-> TRUE]
NoError == <<>>
NoResult == [State |-> "NONE"]

----------------------------------------------------------------------------
(* Configuration surface *)

TableOverrides == {"", "t_env"}
IdentityStoreIds == {"", "d-1"}

(* Glue catalog: the tables a listing with MaxResults=1 can return *)
GlueListings == {<<>>, <<[Name |-> "t1"]>>, <<[Name |-> "t1"], [Name |-> "t2"]>>}

UserIds == {"u1", "u2", "u3"}

----------------------------------------------------------------------------
(* st.cache_data *)

Key(fn, args) == [fn |-> fn, args |-> args]

(* every function cached with ttl=3600 *)
TTLAllLong(fn) == TTL_LONG

(* every function cached with ttl=300 *)
TTLAllShort(fn) == TTL_QUERY

(* The ttl of each @st.cache_data decorator *)
TTL(fn) == IF fn = "fetch_data" THEN TTL_QUERY ELSE TTL_LONG

Cached(c, k) == k \in DOMAIN c

(* An entry younger than its ttl is served; one older is treated as absent. *)
(* At age = ttl the caching library decides: either outcome is possible.    *)
MayHit(c, k) == IF Cached(c, k) THEN c[k].age <= TTL(k.fn) ELSE FALSE
MayMiss(c, k) == IF Cached(c, k) THEN c[k].age >= TTL(k.fn) ELSE TRUE

Store(c, k, v) ==
    [x \in DOMAIN c \cup {k} |-> IF x = k THEN [val |-> v, age |-> 0] ELSE c[x]]

(* d time units pass.  An entry older than its ttl is never served again: *)
(* it is dropped here rather than kept until the next lookup finds it stale *)
Elapse(c, d) ==
    [x \in {y \in DOMAIN c : c[y].age + d <= TTL(y.fn)} |->
        [c[x] EXCEPT !.age = @ + d]]

Clear == [x \in {} |-> NoEntry]

(* fetch_data.clear(): only the query results are dropped *)
ClearedQueriesOnly(c) == [x \in {y \in DOMAIN c : y.fn # "fetch_data"} |-> c[x]]

(* st.cache_data.clear(): every entry of every cached function is dropped *)
Cleared(c) == Clear

(* The value of a call that raised is kept like one that returned *)
OnRaiseStoreEmpty(c, k) ==
    Store(c, k, IF k.fn = "fetch_data" THEN [columns |-> <<>>, rows |-> <<>>] ELSE "")

(* The cached function raised: the exception passes through st.cache_data *)
(* and nothing is stored under the key                                     *)
OnRaise(c, k) == c

(* Only what the try block returned is stored, not the except clause's value *)
StoreUnlessFallback(c, k, v, fellBack) == IF fellBack THEN c ELSE Store(c, k, v)

(* st.cache_data stores what the function returned; the value returned by *)
(* an except clause is a return value like any other                      *)
StoreReturned(c, k, v, fellBack) == Store(c, k, v)

(* Time since the value under k was produced: 0 for one produced just now *)
AgeOf(c, k) == IF Cached(c, k) THEN c[k].age ELSE 0

(* History of the lookups, kept for the properties *)
Looked(k, hit, ok, answer) == [key |-> k, hit |-> hit, ok |-> ok, answer |-> answer]

----------------------------------------------------------------------------
(* The page: the sections main renders, in order.  Each section issues one *)
(* query; the user sections then resolve the identifiers of the result.    *)

Page == << [op |-> "fetch_data", section |-> "overall"],
           [op |-> "fetch_data", section |-> "top_users"],
           [op |-> "get_usernames_batch", section |-> "top_users"] >>

(* The query text of a section: an f-string over table_name *)
Query(section, table) == <<section, table>>

(* Position of the script after the step at index i has returned *)
After(i) == IF i < Len(Page) THEN Page[i + 1].op ELSE "idle"

Event(api, arg, out) == [api |-> api, arg |-> arg, out |-> out]

(* Entries of the run's log of queries *)
Submitted(section, handle) == [what |-> "submitted", section |-> section, qid |-> handle]
Ended(handle, state) == [what |-> "ended", section |-> state, qid |-> handle]
Fetched(handle) == [what |-> "fetched", section |-> "", qid |-> handle]
Served(section) == [what |-> "served", section |-> section, qid |-> 0]

EmptyFrame == [columns |-> <<>>, rows |-> <<>>]
EmptyMap == [u \in {} |-> ""]

----------------------------------------------------------------------------
(* Errors, as the text str(e) shows *)

NoTablesError == <<"No tables found in Glue database", "">>
ClientError(api) == <<"ClientError", api>>

UnknownError == "Unknown error"

(* The backend's stated reasons for a failed or cancelled query *)
Reasons == {"Syntax error in SQL", ""}

TerminalStates == {"SUCCEEDED", "FAILED", "CANCELLED"}
RunningStates == {"QUEUED", "RUNNING"}

(* result['QueryExecution']['Status'] of one status call *)
StatusAnswers ==
    [State : RunningStates \cup {"SUCCEEDED"}]
    \cup [State : {"FAILED", "CANCELLED"}]
    \cup [State : {"FAILED", "CANCELLED"}, StateChangeReason : Reasons]

(* The backend of the dashboard specification makes the program wait at   *)
(* most MaxSleeps times in all: after that every status it reports is      *)
(* terminal.                                                               *)
BoundedAnswers(n) ==
    IF n >= MaxSleeps
    THEN {a \in StatusAnswers : a.State \in TerminalStates}
    ELSE StatusAnswers

(* The status calls a trace holds *)
Polls(t) == {i \in 1..Len(t) : t[i].api = "get_query_execution"}

(* The slow backend reports a terminal state at the latest on status call *)
(* number MaxPolls of a query.                                             *)
SlowAnswers(t) ==
    IF Cardinality(Polls(t)) + 1 >= MaxPolls
    THEN {a \in StatusAnswers : a.State \in TerminalStates}
    ELSE StatusAnswers

(* while polls < 3: *)
WhileAttemptsLeft(polls) == polls < 3

(* while True: *)
WhileTrue(polls) == TRUE

(* status in ['SUCCEEDED', 'FAILED'] *)
LoopBreaksNoCancel(status) == status.State \in {"SUCCEEDED", "FAILED"}

(* status in ['SUCCEEDED', 'FAILED', 'CANCELLED'] *)
LoopBreaks(status) == status.State \in TerminalStates

(* if status == 'SUCCEEDED' *)
IsSucceeded(status) == status.State = "SUCCEEDED"

(* What follows a status call: the busy loop that forgets to sleep *)
AfterStatusNoSleep(status) ==
    IF ~LoopBreaks(status) THEN "get_query_execution"
    ELSE IF IsSucceeded(status) THEN "get_query_results"
    ELSE "raise"

(* What follows a status call: the results are fetched unless it failed *)
AfterStatusNoWait(status) ==
    IF status.State \in {"FAILED", "CANCELLED"} THEN "raise" ELSE "get_query_results"

(* What follows a status call: break out of the loop or sleep; after the *)
(* loop, return qid to fetch_data or raise                                *)
AfterStatus(status) ==
    IF ~LoopBreaks(status) THEN "sleep"
    ELSE IF IsSucceeded(status) THEN "get_query_results"
    ELSE "raise"

(* Status.get('StateChangeReason') or 'Unknown error' *)
ErrorReasonOr(status) ==
    IF "StateChangeReason" \in DOMAIN status /\ status.StateChangeReason # ""
    THEN status.StateChangeReason
    ELSE "Unknown error"

(* Status.get('StateChangeReason', 'Unknown error') *)
ErrorReason(status) ==
    IF "StateChangeReason" \in DOMAIN status
    THEN status.StateChangeReason
    ELSE UnknownError

QueryFailed(status) == <<"Query failed: ", ErrorReason(status)>>

----------------------------------------------------------------------------
(* Athena results and their decoding (fetch_data) *)

Cell(v) == [present |-> TRUE, VarCharValue |-> v]
NullCell == [present |-> FALSE, VarCharValue |-> ""]

Row(cells) == [Data |-> cells]

(* The identifier lists the user query can yield *)
UserLists == {<<>>, <<"u1", "u2">>, <<"u2", "u3", "u2">>}

Labels(section) ==
    IF section = "overall"
    THEN <<"total_users", "total_messages">>
    ELSE <<"userid", "total_messages">>

Header(section) ==
    Row([j \in 1..Len(Labels(section)) |-> Cell(Labels(section)[j])])

ResultSet(section, rows) ==
    [ColumnInfo |-> [j \in 1..Len(Labels(section)) |-> [Label |-> Labels(section)[j]]],
     Rows |-> <<Header(section)>> \o rows]

(* What get_query_results can return for a section's query *)
RawResults(section) ==
    IF section = "overall"
    THEN {ResultSet(section, <<Row(<<Cell("3"), NullCell>>)>>)}
    ELSE {ResultSet(section, [i \in 1..Len(l) |-> Row(<<Cell(l[i]), NullCell>>)]) :
            l \in UserLists}

(* field.get('VarCharValue', '') *)
FieldValue(field) == IF field.present THEN field.VarCharValue ELSE ""

(* pd.DataFrame(rows, columns=columns) over every row of the result *)
DataFrameWithHeader(raw) ==
    [columns |-> [j \in 1..Len(raw.ColumnInfo) |-> raw.ColumnInfo[j].Label],
     rows |-> [i \in 1..Len(raw.Rows) |->
                 [j \in 1..Len(raw.Rows[i].Data) |-> FieldValue(raw.Rows[i].Data[j])]]]

(* pd.DataFrame(rows, columns=columns) over result['ResultSet']['Rows'][1:] *)
DataFrame(raw) ==
    [columns |-> [j \in 1..Len(raw.ColumnInfo) |-> raw.ColumnInfo[j].Label],
     rows |-> [i \in 1..(Len(raw.Rows) - 1) |->
                 [j \in 1..Len(raw.Rows[i + 1].Data) |->
                     FieldValue(raw.Rows[i + 1].Data[j])]]]

(* df['userid'].tolist() *)
ColumnValues(frame, label) ==
    LET js == {j \in 1..Len(frame.columns) : frame.columns[j] = label}
    IN  IF js = {} THEN <<>>
        ELSE LET j == CHOOSE x \in js : TRUE
             IN  [i \in 1..Len(frame.rows) |-> frame.rows[i][j]]

----------------------------------------------------------------------------
(* Identity directory *)

None == "<None>"

Truthy(v) == v # None /\ v # ""

Email(v) == [dict |-> TRUE, Value |-> v]
BadEmail == [dict |-> FALSE, Value |-> None]
NoEmails == [present |-> FALSE, list |-> <<>>]
Emails(l) == [present |-> TRUE, list |-> l]

User(name, display, emails) ==
    [UserName |-> name, DisplayName |-> display, Emails |-> emails]

(* The answers describe_user can give: a response, or an exception *)
DirectoryResponses ==
    { User("alice", None, Emails(<<>>)),
      User(None, None, Emails(<<>>)),
      User(None, None, Emails(<<BadEmail>>)),
      User(None, None, NoEmails) }

DirectoryErrors == {"ResourceNotFoundException", "ThrottlingException"}

NoUser == User(None, None, NoEmails)

DirectoryAnswers ==
    {[error |-> e, response |-> NoUser] : e \in DirectoryErrors}
    \cup {[error |-> "", response |-> r] : r \in DirectoryResponses}

Returned(v) == [raised |-> FALSE, val |-> v]
Raised(e) == [raised |-> TRUE, val |-> e]

NoCall == [fn |-> ""]
(* ret: empty until the call has ended, then its one outcome *)
NoReturn == <<>>

(* The value of the first entry of Emails that has one *)
FirstEmailWithValue(response) ==
    LET emails == IF response.Emails.present
                  THEN response.Emails.list
                  ELSE <<Email(None)>>
        valued == {i \in 1..Len(emails) : emails[i].dict /\ Truthy(emails[i].Value)}
    IN  IF Len(emails) = 0 THEN Raised("IndexError")
        ELSE IF valued = {} THEN Returned(None)
        ELSE Returned(emails[CHOOSE i \in valued : \A j \in valued : i <= j].Value)

(* response.get('Emails', [{}])[0].get('Value') *)
FirstEmail(response) ==
    LET emails == IF response.Emails.present
                  THEN response.Emails.list
                  ELSE <<Email(None)>>
    IN  IF Len(emails) = 0 THEN Raised("IndexError")
        ELSE IF ~emails[1].dict THEN Raised("AttributeError")
        ELSE Returned(emails[1].Value)

(* response.get('UserName') or response.get('DisplayName') or ... or userid *)
DisplayName(response, userid) ==
    IF Truthy(response.UserName) THEN Returned(response.UserName)
    ELSE IF Truthy(response.DisplayName) THEN Returned(response.DisplayName)
    ELSE LET e == FirstEmail(response)
         IN  IF e.raised THEN e
             ELSE IF Truthy(e.val) THEN e
             ELSE Returned(userid)

(* try: ... except Exception: return userid *)
OrUserid(outcome, userid) == IF outcome.raised THEN userid ELSE outcome.val

NoAnswer == [error |-> "", response |-> NoUser]
NoLookup == Looked(Key("", <<>>), FALSE, TRUE, NoAnswer)
Hit(k) == Looked(k, TRUE, TRUE, NoAnswer)
Miss(k) == Looked(k, FALSE, TRUE, NoAnswer)

(* No batch is cached *)
NoBatches == [k \in {} |-> [u \in {} |-> 0]]

(* d time units pass for the names of the batches still cached *)
ElapseBorn(b, d, keys) ==
    [k \in DOMAIN b \cap keys |-> [u \in DOMAIN b[k] |-> b[k][u] + d]]

(* The identifiers of s whose per-identifier entry is still cached in c *)
StillCached(s, c) == {u \in s : Key("get_username", <<u>>) \in DOMAIN c}

(* d time units pass for the directory calls on record *)
ElapseLooked(l, d) ==
    [u \in {v \in DOMAIN l : l[v] + d < 3600} |-> l[u] + d]

(* The client is obtained before the configuration is looked at *)
get_username_calls_eager(userid, store_id, clientOk, answer) ==
    IF ~clientOk
    THEN <<Event("get_identity_store_client", <<>>, "error")>>
    ELSE IF store_id = "" THEN <<Event("get_identity_store_client", <<>>, "ok")>>
    ELSE <<Event("get_identity_store_client", <<>>, "ok"),
           Event("describe_user", <<userid>>,
                 IF answer.error # "" THEN "error" ELSE "ok")>>

(* The calls get_username makes, in order (lines 143-147) *)
get_username_calls(userid, store_id, clientOk, answer) ==
    IF store_id = "" THEN <<>>
    ELSE IF ~clientOk
    THEN <<Event("get_identity_store_client", <<>>, "error")>>
    ELSE <<Event("get_identity_store_client", <<>>, "ok"),
           Event("describe_user", <<userid>>,
                 IF answer.error # "" THEN "error" ELSE "ok")>>

(* What the try block of get_username evaluates to (lines 146-149) *)
get_username_try(userid, clientOk, answer) ==
    IF ~clientOk THEN Raised("ClientCreationError")
    ELSE IF answer.error # "" THEN Raised(answer.error)
    ELSE DisplayName(answer.response, userid)

(* get_username without its except clause *)
get_username_uncaught(userid, store_id, clientOk, answer) ==
    IF store_id = "" THEN Returned(userid)
    ELSE get_username_try(userid, clientOk, answer)

(* The body of get_username: what it returns or raises *)
get_username_body(userid, store_id, clientOk, answer) ==
    IF store_id = "" THEN Returned(userid)
    ELSE Returned(OrUserid(get_username_try(userid, clientOk, answer), userid))

----------------------------------------------------------------------------
(* Value coercion (safe_float, safe_int).  A cell is None or a text, kept   *)
(* as its sequence of characters so that float() has something to parse.    *)

Digits == <<"0", "1", "2", "3", "4", "5", "6", "7", "8", "9">>

IsDigit(c) == \E i \in 1..Len(Digits) : Digits[i] = c

DigitOf(c) == (CHOOSE i \in 1..Len(Digits) : Digits[i] = c) - 1

Whitespace == {" ", "\t", "\n"}

RECURSIVE LStrip(_)
LStrip(t) == IF t # <<>> /\ Head(t) \in Whitespace THEN LStrip(Tail(t)) ELSE t

RECURSIVE RStrip(_)
RStrip(t) ==
    IF t # <<>> /\ t[Len(t)] \in Whitespace
    THEN RStrip(SubSeq(t, 1, Len(t) - 1))
    ELSE t

(* str.strip() *)
Strip(t) == RStrip(LStrip(t))

(* The Python value None where a text is expected *)
NoneValue == <<None>>

(* val and str(val).strip() not in ('', 'None') *)
HasValue(val) ==
    IF val = NoneValue \/ val = <<>> THEN FALSE
    ELSE Strip(val) \notin {<<>>, <<"N", "o", "n", "e">>}

RECURSIVE Pow10(_)
Pow10(n) == IF n = 0 THEN 1 ELSE 10 * Pow10(n - 1)

(* The longest prefix of t made of digits *)
RECURSIVE DigitRun(_)
DigitRun(t) ==
    IF t # <<>> /\ IsDigit(Head(t)) THEN <<Head(t)>> \o DigitRun(Tail(t)) ELSE <<>>

RECURSIVE Number(_)
Number(ds) == IF ds = <<>> THEN 0 ELSE 10 * Number(SubSeq(ds, 1, Len(ds) - 1)) + DigitOf(ds[Len(ds)])

Drop(t, n) == SubSeq(t, n + 1, Len(t))

RECURSIVE LStripZeros(_)
LStripZeros(ds) == IF ds # <<>> /\ Head(ds) = "0" THEN LStripZeros(Tail(ds)) ELSE ds

(* A float: inf, nan, or the finite value (-1)^neg * mant * 10^exp *)
Inf(neg) == [kind |-> "inf", neg |-> neg, mant |-> 0, exp |-> 0]
NaN == [kind |-> "nan", neg |-> FALSE, mant |-> 0, exp |-> 0]
Finite(neg, mant, exp) == [kind |-> "finite", neg |-> neg, mant |-> mant, exp |-> exp]

(* Decimal exponent from which on a double is out of range *)
FloatMaxExp10 == 309

(* Round a decimal to a double: out of range becomes inf *)
ToDouble(neg, digits, exp) ==
    LET mant == Number(digits)
        lead == Len(LStripZeros(digits))
    IN  IF mant # 0 /\ lead + exp > FloatMaxExp10 THEN Inf(neg)
        ELSE Finite(neg, mant, IF mant = 0 THEN 0 ELSE exp)

(* The unsigned part of a float literal: inf, nan or a decimal number with  *)
(* an optional fraction and an optional exponent                            *)
Unsigned(neg, t) ==
    IF t \in {<<"i", "n", "f">>, <<"i", "n", "f", "i", "n", "i", "t", "y">>}
    THEN Returned(Inf(neg))
    ELSE IF t = <<"n", "a", "n">> THEN Returned(NaN)
    ELSE
    LET ip == DigitRun(t)
        r1 == Drop(t, Len(ip))
        dot == r1 # <<>> /\ Head(r1) = "."
        fp == IF dot THEN DigitRun(Tail(r1)) ELSE <<>>
        r2 == IF dot THEN Drop(r1, 1 + Len(fp)) ELSE r1
        hasExp == r2 # <<>> /\ Head(r2) \in {"e", "E"}
        r3 == IF hasExp THEN Tail(r2) ELSE r2
        eneg == hasExp /\ r3 # <<>> /\ Head(r3) = "-"
        r4 == IF hasExp /\ r3 # <<>> /\ Head(r3) \in {"-", "+"} THEN Tail(r3) ELSE r3
        ep == IF hasExp THEN DigitRun(r4) ELSE <<>>
        r5 == Drop(r4, Len(ep))
        e == IF eneg THEN 0 - Number(ep) ELSE Number(ep)
    IN  IF ip \o fp = <<>> \/ r5 # <<>> \/ (hasExp /\ ep = <<>>)
        THEN Raised("ValueError")
        ELSE Returned(ToDouble(neg, ip \o fp, e - Len(fp)))

(* float(val) *)
FloatOf(val) ==
    IF val = NoneValue THEN Raised("TypeError")
    ELSE LET t == Strip(val)
         IN  IF t = <<>> THEN Raised("ValueError")
             ELSE IF Head(t) = "-" THEN Unsigned(TRUE, Tail(t))
             ELSE IF Head(t) = "+" THEN Unsigned(FALSE, Tail(t))
             ELSE Unsigned(FALSE, t)

(* int(x) of a float: truncation toward zero *)
IntOf(x) ==
    IF x.kind = "inf" THEN Raised("OverflowError")
    ELSE IF x.kind = "nan" THEN Raised("ValueError")
    ELSE LET mag == IF x.exp >= 0 THEN x.mant * Pow10(x.exp)
                    ELSE x.mant \div Pow10(0 - x.exp)
         IN  Returned(IF x.neg THEN 0 - mag ELSE mag)

(* except (ValueError, TypeError): return default *)
Caught == {"ValueError", "TypeError"}

OrDefault(outcome, default) ==
    IF outcome.raised /\ outcome.val \in Caught THEN Returned(default) ELSE outcome

safe_float(val, default) ==
    IF ~HasValue(val) THEN Returned(default)
    ELSE OrDefault(FloatOf(val), default)

safe_int(val, default) ==
    IF ~HasValue(val) THEN Returned(default)
    ELSE LET x == FloatOf(val)
         IN  OrDefault(IF x.raised THEN x ELSE IntOf(x.val), default)

----------------------------------------------------------------------------
(* The script run *)

(* The state of the script's locals and of the stores before the first run *)
Loaded ==
    /\ cache = Clear
    /\ clients = {}
    /\ pc = "idle"
    /\ step = 0
    /\ runs = 0
    /\ table_name = ""
    /\ qid = 0
    /\ result = NoResult
    /\ df = EmptyFrame
    /\ todo = <<>>
    /\ umap = EmptyMap
    /\ error = NoError
    /\ nextQid = 0
    /\ slept = 0
    /\ trace = <<>>
    /\ refresh = FALSE
    /\ lookup = NoLookup
    /\ cleared = {}
    /\ looked = [u \in {} |-> 0]
    /\ runlog = <<>>
    /\ raisers = {}
    /\ born = NoBatches
    /\ fallbacks = {}

Init ==
    /\ config \in [GLUE_TABLE_NAME : TableOverrides,
                   IDENTITY_STORE_ID : IdentityStoreIds]
    /\ call = NoCall
    /\ ret = NoReturn
    /\ Loaded

(* The cached call at index step returns to main *)
Proceed ==
    /\ pc' = After(step)
    /\ step' = IF step < Len(Page) THEN step + 1 ELSE step

(* A handler around each section: the error is shown and the page goes on *)
RaiseAndContinue(e) ==
    /\ error' = e
    /\ Proceed

(* An exception leaves the try block of main: st.error and the checklist *)
Raise(e) ==
    /\ pc' = "idle"
    /\ step' = step
    /\ error' = e

(* except Exception: pass, and the function carries on *)
Swallow(e) ==
    /\ pc' = "get_query_execution"
    /\ UNCHANGED <<step, error>>

(* A backend call outside any try block failed: the exception propagates *)
(* through execute_athena_query and fetch_data to main                    *)
Propagate(e) == Raise(e)

(* boto3.client under st.cache_resource: created once, then reused *)
ClientOutcomes(name) == IF name \in clients THEN {TRUE} ELSE {TRUE, FALSE}

(* main, up to the try block: the refresh button clears st.cache_data *)
main(pressed, d) ==
    /\ pc = "idle"
    /\ runs' = runs + 1
    /\ refresh' = pressed
    /\ cache' = IF pressed THEN Cleared(cache) ELSE Elapse(cache, d)
    /\ cleared' = IF pressed THEN cleared \cup DOMAIN cache ELSE cleared
    /\ looked' = IF pressed THEN [u \in {} |-> 0] ELSE ElapseLooked(looked, d)
    /\ lookup' = NoLookup
    /\ pc' = "resolve_table_name"
    /\ step' = 0
    /\ table_name' = ""
    /\ qid' = 0
    /\ result' = NoResult
    /\ df' = EmptyFrame
    /\ todo' = <<>>
    /\ umap' = EmptyMap
    /\ error' = NoError
    /\ trace' = <<>>
    /\ runlog' = <<>>
    /\ born' = IF pressed THEN NoBatches ELSE ElapseBorn(born, d, DOMAIN cache')
    /\ fallbacks' = StillCached(fallbacks, cache')
    /\ UNCHANGED <<call, ret, config, clients, nextQid, slept, raisers>>

(* tables[0]['Name'] if tables *)
FirstTable(tables) == IF Len(tables) > 0 THEN Returned(tables[1].Name) ELSE Raised("")

(* The override is never looked at *)
UsesOverrideNever(override) == FALSE

(* if GLUE_TABLE_NAME: *)
UsesOverride(override) == override # ""

(* The exception of the try block leaves the function *)
NoTablesReraised(swallowed) ==
    IF swallowed = "" THEN NoTablesError ELSE ClientError(swallowed)

(* except Exception: pass, then the raise that ends the function: whatever *)
(* failed in the try block, the error is the same                          *)
NoTables(swallowed) == NoTablesError

resolve_table_name ==
    /\ pc = "resolve_table_name"
    /\ LET k == Key("resolve_table_name", <<>>) IN
       \/ /\ MayHit(cache, k)
          /\ table_name' = cache[k].val
          /\ trace' = <<>>
          /\ lookup' = Hit(k)
          /\ Proceed
          /\ UNCHANGED <<cache, clients, error>>
       \/ /\ MayMiss(cache, k)
          /\ lookup' = Miss(k)
          /\ UsesOverride(config.GLUE_TABLE_NAME)
          /\ table_name' = config.GLUE_TABLE_NAME
          /\ cache' = Store(cache, k, config.GLUE_TABLE_NAME)
          /\ trace' = <<>>
          /\ Proceed
          /\ UNCHANGED <<clients, error>>
       \/ /\ MayMiss(cache, k)
          /\ lookup' = Miss(k)
          /\ ~UsesOverride(config.GLUE_TABLE_NAME)
          /\ \E ok \in ClientOutcomes("glue"), failed \in BOOLEAN, tables \in GlueListings :
               LET found == IF ~ok THEN Raised("get_glue_client")
                            ELSE IF failed THEN Raised("get_tables")
                            ELSE FirstTable(tables)
               IN  /\ clients' = IF ok THEN clients \cup {"glue"} ELSE clients
                   /\ trace' = IF ~ok
                               THEN <<Event("get_glue_client", <<>>, "error")>>
                               ELSE <<Event("get_glue_client", <<>>, "ok"),
                                      IF failed
                                      THEN Event("get_tables", <<>>, "error")
                                      ELSE Event("get_tables", tables, "ok")>>
                   /\ IF found.raised
                      THEN /\ Raise(NoTables(found.val))
                           /\ cache' = OnRaise(cache, k)
                           /\ UNCHANGED table_name
                      ELSE /\ table_name' = found.val
                           /\ cache' = Store(cache, k, found.val)
                           /\ Proceed
                           /\ UNCHANGED error
    /\ cleared' = cleared \ {Key("resolve_table_name", <<>>)}
    /\ raisers' = IF error' # NoError
                 THEN raisers \cup {Key("resolve_table_name", <<>>)}
                 ELSE raisers \ {Key("resolve_table_name", <<>>)}
    /\ UNCHANGED <<born, fallbacks, call, ret, config, runs, qid, result, df, todo, umap, nextQid, slept,
                   refresh, looked, runlog>>

----------------------------------------------------------------------------
(* fetch_data and execute_athena_query *)

CurrentQuery == Query(Page[step].section, table_name)

(* fetch_data is called: the cache lookup, then get_athena_client *)
fetch_data ==
    /\ pc = "fetch_data"
    /\ LET k == Key("fetch_data", CurrentQuery) IN
       \/ /\ MayHit(cache, k)
          /\ df' = cache[k].val
          /\ trace' = <<>>
          /\ lookup' = Hit(k)
          /\ runlog' = Append(runlog, Served(Page[step].section))
          /\ Proceed
          /\ UNCHANGED <<clients, error>>
       \/ /\ MayMiss(cache, k)
          /\ lookup' = Miss(k)
          /\ UNCHANGED runlog
          /\ \E ok \in ClientOutcomes("athena") :
               IF ok
               THEN /\ clients' = clients \cup {"athena"}
                    /\ trace' = <<Event("get_athena_client", <<>>, "ok")>>
                    /\ pc' = "start_query_execution"
                    /\ UNCHANGED <<step, error, df>>
               ELSE /\ trace' = <<Event("get_athena_client", <<>>, "error")>>
                    /\ Propagate(ClientError("get_athena_client"))
                    /\ UNCHANGED <<clients, df>>
    /\ qid' = 0
    /\ result' = NoResult
    /\ cleared' = cleared \ {Key("fetch_data", CurrentQuery)}
    /\ raisers' = IF error' # NoError
                 THEN raisers \cup {Key("fetch_data", CurrentQuery)}
                 ELSE raisers \ {Key("fetch_data", CurrentQuery)}
    /\ UNCHANGED <<born, fallbacks, call, ret, config, cache, runs, table_name, todo, umap, nextQid, slept,
                   refresh, looked>>

(* client.start_query_execution(...); qid = response['QueryExecutionId'] *)
start_query_execution ==
    /\ pc = "start_query_execution"
    /\ \/ /\ nextQid' = nextQid + 1
          /\ qid' = nextQid + 1
          /\ trace' = Append(trace, Event("start_query_execution", <<nextQid + 1>>, "ok"))
          /\ runlog' = Append(runlog, Submitted(Page[step].section, nextQid + 1))
          /\ pc' = "get_query_execution"
          /\ UNCHANGED <<step, error>>
       \/ /\ trace' = Append(trace, Event("start_query_execution", <<>>, "error"))
          /\ Propagate(ClientError("start_query_execution"))
          /\ UNCHANGED <<nextQid, qid, runlog>>
    /\ raisers' = IF error' # NoError
                 THEN raisers \cup {Key("fetch_data", CurrentQuery)}
                 ELSE raisers
    /\ UNCHANGED <<born, fallbacks, call, ret, config, cache, clients, runs, table_name, result, df, todo, umap, slept,
                   refresh, lookup, cleared, looked>>

(* One pass of the while loop: the status call and the test that follows, *)
(* then the return or raise after the loop.  answers: what the backend may *)
(* say now.                                                                *)
get_query_execution(answers) ==
    /\ pc = "get_query_execution"
    /\ \/ \E a \in answers :
            /\ result' = a
            /\ trace' = Append(trace, Event("get_query_execution", <<qid>>, a.State))
            /\ runlog' = IF a.State \in TerminalStates
                         THEN Append(runlog, Ended(qid, a.State))
                         ELSE runlog
            /\ IF AfterStatus(a) = "raise"
               THEN Raise(QueryFailed(a))
               ELSE /\ pc' = AfterStatus(a)
                    /\ UNCHANGED <<step, error>>
       \/ /\ trace' = Append(trace, Event("get_query_execution", <<qid>>, "error"))
          /\ Propagate(ClientError("get_query_execution"))
          /\ UNCHANGED <<result, runlog>>
    /\ raisers' = IF error' # NoError
                 THEN raisers \cup {Key("fetch_data", CurrentQuery)}
                 ELSE raisers
    /\ UNCHANGED <<born, fallbacks, call, ret, config, cache, clients, runs, table_name, qid, df, todo, umap, nextQid,
                   slept, refresh, lookup, cleared, looked>>

(* time.sleep(1), then the top of the loop *)
sleep ==
    /\ pc = "sleep"
    /\ cache' = Elapse(cache, SleepInterval)
    /\ trace' = Append(trace, Event("sleep", <<SleepInterval>>, "ok"))
    /\ IF WhileTrue(Cardinality(Polls(trace)))
       THEN /\ pc' = "get_query_execution"
            /\ UNCHANGED <<step, error>>
       ELSE Raise(QueryFailed(result))
    /\ looked' = ElapseLooked(looked, SleepInterval)
    /\ slept' = IF slept < MaxSleeps THEN slept + 1 ELSE slept
    /\ born' = ElapseBorn(born, SleepInterval, DOMAIN cache')
    /\ fallbacks' = StillCached(fallbacks, cache')
    /\ UNCHANGED <<call, ret, config, clients, runs, table_name, qid, result, df, todo,
                   umap, nextQid, refresh, lookup, cleared, runlog, raisers>>

(* client.get_query_results(QueryExecutionId=qid), decoded and cached *)
get_query_results ==
    /\ pc = "get_query_results"
    /\ \/ \E raw \in RawResults(Page[step].section) :
            /\ df' = DataFrame(raw)
            /\ cache' = Store(cache, Key("fetch_data", CurrentQuery), DataFrame(raw))
            /\ trace' = Append(trace, Event("get_query_results", <<qid>>, "ok"))
            /\ runlog' = Append(runlog, Fetched(qid))
            /\ Proceed
            /\ UNCHANGED error
       \/ /\ trace' = Append(trace, Event("get_query_results", <<qid>>, "error"))
          /\ Propagate(ClientError("get_query_results"))
          /\ cache' = OnRaise(cache, Key("fetch_data", CurrentQuery))
          /\ UNCHANGED <<df, runlog>>
    /\ raisers' = IF error' # NoError
                 THEN raisers \cup {Key("fetch_data", CurrentQuery)}
                 ELSE raisers
    /\ UNCHANGED <<born, fallbacks, call, ret, config, clients, runs, table_name, qid, result, todo, umap, nextQid, slept,
                   refresh, lookup, cleared, looked>>

----------------------------------------------------------------------------
(* get_usernames_batch and get_username *)

Userids == ColumnValues(df, "userid")

With(m, u, v) == [x \in DOMAIN m \cup {u} |-> IF x = u THEN v ELSE m[x]]

get_usernames_batch ==
    /\ pc = "get_usernames_batch"
    /\ LET k == Key("get_usernames_batch", Userids) IN
       \/ /\ MayHit(cache, k)
          /\ umap' = cache[k].val
          /\ lookup' = Hit(k)
          /\ Proceed
          /\ UNCHANGED <<cache, todo, born>>
       \/ /\ MayMiss(cache, k)
          /\ lookup' = Miss(k)
          /\ Userids = <<>>
          /\ umap' = EmptyMap
          /\ cache' = Store(cache, k, EmptyMap)
          /\ born' = With(born, k, [u \in {} |-> 0])
          /\ Proceed
          /\ UNCHANGED todo
       \/ /\ MayMiss(cache, k)
          /\ lookup' = Miss(k)
          /\ Userids # <<>>
          /\ umap' = EmptyMap
          /\ todo' = Userids
          /\ pc' = "get_username"
          /\ UNCHANGED <<cache, step, born>>
    /\ trace' = <<>>
    /\ cleared' = cleared \ {Key("get_usernames_batch", Userids)}
    /\ UNCHANGED <<fallbacks, call, ret, config, clients, runs, table_name, qid, result, df, error,
                   nextQid, slept, refresh, looked, runlog, raisers>>

(* get_username(uid) returned name inside the comprehension; after the last *)
(* identifier the mapping is cached and returned                            *)
Resolved(uid, name, cacheAfter) ==
    /\ umap' = With(umap, uid, name)
    /\ todo' = Tail(todo)
    /\ IF Tail(todo) = <<>>
       THEN /\ cache' = Store(cacheAfter, Key("get_usernames_batch", Userids),
                              With(umap, uid, name))
            /\ born' = With(born, Key("get_usernames_batch", Userids),
                            [u \in DOMAIN umap \cup {uid} |->
                                AgeOf(cacheAfter, Key("get_username", <<u>>))])
            /\ Proceed
       ELSE /\ cache' = cacheAfter
            /\ UNCHANGED <<pc, step, born>>
    /\ UNCHANGED error

get_username ==
    /\ pc = "get_username"
    /\ LET uid == Head(todo)
           k == Key("get_username", <<uid>>)
       IN
       \/ /\ MayHit(cache, k)
          /\ Resolved(uid, cache[k].val, cache)
          /\ lookup' = Hit(k)
          /\ UNCHANGED <<clients, trace, looked, fallbacks>>
       \/ /\ MayMiss(cache, k)
          /\ \E ok \in ClientOutcomes("identitystore"), answer \in DirectoryAnswers :
               LET out == get_username_body(uid, config.IDENTITY_STORE_ID, ok, answer)
                   calls == get_username_calls(uid, config.IDENTITY_STORE_ID, ok, answer)
               IN  /\ trace' = trace \o calls
                   /\ lookup' = Looked(k, FALSE, ok, answer)
                   /\ looked' =
                        IF \E i \in 1..Len(calls) : calls[i].api = "describe_user"
                        THEN With(looked, uid, 0)
                        ELSE looked
                   /\ fallbacks' =
                        IF config.IDENTITY_STORE_ID # "" /\ get_username_try(uid, ok, answer).raised
                        THEN fallbacks \cup {uid}
                        ELSE fallbacks \ {uid}
                   /\ clients' =
                        IF \E i \in 1..Len(calls) :
                             calls[i] = Event("get_identity_store_client", <<>>, "ok")
                        THEN clients \cup {"identitystore"}
                        ELSE clients
                   /\ IF out.raised
                      THEN /\ Raise(<<"Exception", out.val>>)
                           /\ UNCHANGED <<cache, todo, umap, born>>
                      ELSE Resolved(uid, out.val,
                                    StoreReturned(cache, k, out.val, uid \in fallbacks'))
    /\ cleared' = cleared \ {Key("get_username", <<Head(todo)>>)}
    /\ UNCHANGED <<call, ret, config, runs, table_name, qid, result, df, nextQid, slept, refresh,
                   runlog, raisers>>

----------------------------------------------------------------------------

Next ==
    \/ /\ runs < MaxRuns
       /\ \E pressed \in BOOLEAN, d \in Waits : main(pressed, d)
    \/ resolve_table_name
    \/ fetch_data
    \/ start_query_execution
    \/ get_query_execution(BoundedAnswers(slept))
    \/ sleep
    \/ get_query_results
    \/ get_usernames_batch
    \/ get_username

Spec == Init /\ [][Next]_vars

(* The first script run against the slow backend *)
NextExec ==
    \/ /\ runs = 0
       /\ \E pressed \in BOOLEAN, d \in Waits : main(pressed, d)
    \/ resolve_table_name
    \/ fetch_data
    \/ start_query_execution
    \/ get_query_execution(SlowAnswers(trace))
    \/ sleep
    \/ get_query_results
    \/ get_usernames_batch
    \/ get_username

SpecExec == Init /\ [][NextExec]_vars

----------------------------------------------------------------------------
(* The helpers called on their own: one call, on every input of a bounded  *)
(* set.                                                                    *)

(* Cell values handed to safe_float and safe_int *)
CellTexts ==
    { <<>>,
      <<" ">>,
      <<" ", " ">>,
      <<"N", "o", "n", "e">>,
      <<" ", "N", "o", "n", "e", " ">>,
      <<"4", "2">>,
      <<" ", "4", "2", " ">>,
      <<"3", ".", "1", "4">>,
      <<"-", "3", ".", "9", "9">>,
      <<"+", "7">>,
      <<"0">>,
      <<".", "5">>,
      <<"5", ".">>,
      <<"a", "b", "c">>,
      <<"4", " ", "2">>,
      <<"1", "e", "3">>,
      <<"1", "e", "9", "9", "9">>,
      <<"-", "1", "e", "9", "9", "9">>,
      <<"i", "n", "f">>,
      <<"-", "i", "n", "f">>,
      <<"i", "n", "f", "i", "n", "i", "t", "y">>,
      <<"n", "a", "n">>,
      <<"1", "5", "e", "-", "1">>,
      <<"-", "-", "1">>,
      <<"e", "5">>,
      <<".">>,
      <<"1", "2", "a", "b", "c">>,
      <<"0", ".", "0">> }

CellValues == {NoneValue} \cup CellTexts

Defaults == {0, 0 - 1}

(* describe_user responses of a directory that answered *)
EmailLists ==
    { NoEmails, Emails(<<>>), Emails(<<BadEmail>>), Emails(<<Email(None)>>),
      Emails(<<Email("")>>), Emails(<<Email("a@x.org")>>),
      Emails(<<Email(None), Email("b@x.org")>>),
      Emails(<<Email("a@x.org"), Email("b@x.org")>>) }

FoundUsers ==
    { User(n, d, e) : n \in {None, "", "alice"}, d \in {None, "", "Alice A"},
                      e \in EmailLists }

(* Raw Athena results: a header row and up to two data rows, or no row *)
DataCells == {Cell("7"), Cell(""), NullCell}

DataRows == {Row(<<a, b>>) : a \in DataCells, b \in DataCells}

RawInputs ==
    {[ColumnInfo |-> ResultSet(sec, <<>>).ColumnInfo, Rows |-> <<>>] :
        sec \in {"overall", "top_users"}}
    \cup {ResultSet(sec, <<>>) : sec \in {"overall", "top_users"}}
    \cup {ResultSet(sec, <<r>>) : sec \in {"overall", "top_users"}, r \in DataRows}
    \cup {ResultSet(sec, <<r, q>>) : sec \in {"overall"}, r \in DataRows, q \in DataRows}

HelperCalls ==
    {[fn |-> "safe_float", val |-> v, default |-> d] : v \in CellValues, d \in Defaults}
    \cup {[fn |-> "safe_int", val |-> v, default |-> d] : v \in CellValues, d \in Defaults}
    \cup {[fn |-> "get_username", userid |-> u, response |-> r] :
            u \in {"u1"}, r \in FoundUsers}
    \cup {[fn |-> "DataFrame", raw |-> r] : r \in RawInputs}

InitHelpers ==
    /\ config = [GLUE_TABLE_NAME |-> "", IDENTITY_STORE_ID |-> "d-1"]
    /\ call \in HelperCalls
    /\ ret = NoReturn
    /\ Loaded

Unchanged ==
    UNCHANGED <<config, cache, clients, pc, step, runs, table_name, qid, result, df,
                todo, umap, error, nextQid, slept, trace, refresh, lookup, cleared,
                looked, runlog, raisers, born, fallbacks, call>>

call_safe_float ==
    /\ call.fn = "safe_float"
    /\ ret = NoReturn
    /\ ret' = <<safe_float(call.val, call.default)>>
    /\ Unchanged

call_safe_int ==
    /\ call.fn = "safe_int"
    /\ ret = NoReturn
    /\ ret' = <<safe_int(call.val, call.default)>>
    /\ Unchanged

(* get_username on a directory that answers the lookup *)
call_get_username ==
    /\ call.fn = "get_username"
    /\ ret = NoReturn
    /\ ret' = <<get_username_body(call.userid, config.IDENTITY_STORE_ID, TRUE,
                                  [error |-> "", response |-> call.response])>>
    /\ Unchanged

(* The decoding fetch_data applies to the raw result *)
call_DataFrame ==
    /\ call.fn = "DataFrame"
    /\ ret = NoReturn
    /\ ret' = <<Returned(DataFrame(call.raw))>>
    /\ Unchanged

NextHelpers ==
    \/ call_safe_float
    \/ call_safe_int
    \/ call_get_username
    \/ call_DataFrame

SpecHelpers == InitHelpers /\ [][NextHelpers]_vars

----------------------------------------------------------------------------
(* The dashboard left open: a directory is configured, the table name is   *)
(* set, and the page is reloaded about once an hour.                       *)

MaxVisits == 3

(* Time between two page loads: a little less, a little more than an hour *)
HourlyWaits == {TTL_LONG - 100, TTL_LONG + 400}

InitNames ==
    /\ config = [GLUE_TABLE_NAME |-> "t_env", IDENTITY_STORE_ID |-> "d-1"]
    /\ call = NoCall
    /\ ret = NoReturn
    /\ Loaded

NextNames ==
    \/ /\ runs < MaxVisits
       /\ \E d \in HourlyWaits : main(FALSE, d)
    \/ resolve_table_name
    \/ fetch_data
    \/ start_query_execution
    \/ get_query_execution(BoundedAnswers(slept))
    \/ sleep
    \/ get_query_results
    \/ get_usernames_batch
    \/ get_username

SpecNames == InitNames /\ [][NextNames]_vars

----------------------------------------------------------------------------
(* Properties of execute_athena_query and fetch_data                       *)

Calls(t, api) == {i \in 1..Len(t) : t[i].api = api}

(* The states inside execute_athena_query and the result fetch *)
Executing == pc \in {"start_query_execution", "get_query_execution", "sleep",
                     "get_query_results"}

(* C1: the result fetch is issued only after a status call for the same    *)
(* handle returned SUCCEEDED, and exactly once; after FAILED or CANCELLED  *)
(* no result fetch is issued; after a terminal status no status call       *)
(* follows.                                                                *)
C1_FetchOnlyAfterSucceeded ==
    /\ \A i \in Calls(trace, "get_query_results") :
         \E j \in Polls(trace) :
            /\ j < i
            /\ trace[j].out = "SUCCEEDED"
            /\ trace[j].arg = trace[i].arg
    /\ Cardinality(Calls(trace, "get_query_results")) <= 1
    /\ \A j \in Polls(trace) :
         /\ trace[j].out \in {"FAILED", "CANCELLED"}
              => Calls(trace, "get_query_results") = {}
         /\ trace[j].out \in {"SUCCEEDED", "FAILED", "CANCELLED"}
              => \A k \in Polls(trace) : k <= j
         /\ (trace[j].out = "SUCCEEDED" /\ pc # "get_query_results")
              => Cardinality(Calls(trace, "get_query_results")) = 1

C1_Witness ==
    /\ pc = "get_usernames_batch"
    /\ Cardinality(Polls(trace)) = 3
    /\ Cardinality(Calls(trace, "get_query_results")) = 1

(* C2: after a FAILED or CANCELLED status the call fails with the message  *)
(* "Query failed: " followed by the reason of that status response, or by  *)
(* "Unknown error" exactly when the response carries no reason; no handle  *)
(* is returned, so no result fetch follows.                                *)
C2_FailureCarriesReason ==
    result.State \in {"FAILED", "CANCELLED"} =>
        /\ pc = "idle"
        /\ Len(error) = 2
        /\ error[1] = "Query failed: "
        /\ "StateChangeReason" \in DOMAIN result => error[2] = result.StateChangeReason
        /\ error[2] = "Unknown error" <=> "StateChangeReason" \notin DOMAIN result
        /\ Calls(trace, "get_query_results") = {}

C2_Witness ==
    /\ result.State = "FAILED"
    /\ error = <<"Query failed: ", "Syntax error in SQL">>

(* The outcomes of the status calls of a trace, in order *)
RECURSIVE PollOutcomes(_)
PollOutcomes(t) ==
    IF t = <<>> THEN <<>>
    ELSE IF Head(t).api = "get_query_execution"
         THEN <<Head(t).out>> \o PollOutcomes(Tail(t))
         ELSE PollOutcomes(Tail(t))

Apis(t) == [i \in 1..Len(t) |-> t[i].api]

SlowScenario ==
    /\ PollOutcomes(trace) = <<"QUEUED", "RUNNING", "RUNNING", "SUCCEEDED">>
    /\ Calls(trace, "get_query_results") # {}

(* C3 as stated: in the scenario QUEUED, RUNNING, RUNNING, SUCCEEDED       *)
(* exactly 3 status calls precede the result fetch.                        *)
C3_ThreePolls ==
    SlowScenario =>
        \A i \in Calls(trace, "get_query_results") :
            Cardinality({j \in Polls(trace) : j < i}) = 3

(* C3 amended: in that scenario exactly 4 status calls precede the result  *)
(* fetch, the 3 that report a running state and the one that reports       *)
(* SUCCEEDED, and exactly one sleep of one time unit lies between each two *)
(* consecutive status calls, none before the first or after the last.      *)
C3_FourPollsThreeSleeps ==
    SlowScenario =>
        /\ Apis(trace) = <<"get_athena_client", "start_query_execution",
                           "get_query_execution", "sleep",
                           "get_query_execution", "sleep",
                           "get_query_execution", "sleep",
                           "get_query_execution", "get_query_results">>
        /\ \A i \in Calls(trace, "sleep") : trace[i].arg = <<1>>

C3_Witness == SlowScenario /\ pc = "fetch_data"

(* C4: an invocation makes exactly one submission call; when it fails the  *)
(* failure reaches main at once: no retry, no status call, no sleep and no *)
(* result fetch.                                                           *)
C4_SingleSubmission ==
    /\ Cardinality(Calls(trace, "start_query_execution")) <= 1
    /\ pc \in {"get_query_execution", "sleep", "get_query_results"}
         => Cardinality(Calls(trace, "start_query_execution")) = 1
    /\ \A i \in Calls(trace, "start_query_execution") :
         trace[i].out = "error" =>
            /\ i = Len(trace)
            /\ pc = "idle"
            /\ error = <<"ClientError", "start_query_execution">>
    /\ \A i \in Polls(trace) \cup Calls(trace, "sleep")
                 \cup Calls(trace, "get_query_results") :
         \E j \in Calls(trace, "start_query_execution") :
            j < i /\ trace[j].out = "ok"

InLoop == pc \in {"get_query_execution", "sleep"}

(* C5 as stated: execute_athena_query leaves the polling loop only when    *)
(* the backend has reported SUCCEEDED, FAILED or CANCELLED.                *)
C5_EndsOnlyOnTerminal ==
    (qid # 0 /\ ~InLoop) => result.State \in TerminalStates

(* C5 amended: polling has no bound: whatever the number of status calls *)
(* made, a status that is not terminal is followed by a sleep and the      *)
(* sleep by the next status call; the loop is left at once when a terminal *)
(* status is reported, and otherwise only when a status call itself        *)
(* raises.                                                                 *)
C5_UnboundedPolling ==
    /\ [][pc = "sleep" => pc' = "get_query_execution"]_vars
    /\ [][(pc = "get_query_execution" /\ error' = NoError
             /\ result'.State \in {"QUEUED", "RUNNING"})
          => pc' = "sleep"]_vars
    /\ [](InLoop => ENABLED (sleep \/ get_query_execution(StatusAnswers)))
    /\ []((qid # 0 /\ ~InLoop) =>
            \/ result.State \in {"SUCCEEDED", "FAILED", "CANCELLED"}
            \/ error = <<"ClientError", "get_query_execution">>)
    /\ [](result.State \in {"SUCCEEDED", "FAILED", "CANCELLED"} => ~InLoop)

C5_Witness ==
    /\ pc = "get_query_execution"
    /\ Cardinality(Polls(trace)) = MaxPolls - 1
    /\ Cardinality(Calls(trace, "sleep")) = MaxPolls - 1

C4_Witness ==
    /\ Calls(trace, "start_query_execution") # {}
    /\ trace[Len(trace)].api = "start_query_execution"
    /\ trace[Len(trace)].out = "error"
    /\ pc = "idle"

----------------------------------------------------------------------------
(* Properties of the caches                                                *)

AtLookup == pc \in {"resolve_table_name", "fetch_data", "get_usernames_batch",
                    "get_username"}

(* The key the next step of the script looks up *)
LookupKey ==
    IF pc = "resolve_table_name" THEN Key("resolve_table_name", <<>>)
    ELSE IF pc = "fetch_data" THEN Key("fetch_data", CurrentQuery)
    ELSE IF pc = "get_usernames_batch" THEN Key("get_usernames_batch", Userids)
    ELSE Key("get_username", <<Head(todo)>>)

Window(fn) == IF fn = "fetch_data" THEN 300 ELSE 3600

(* The step returned the stored value and made no backend call *)
ServedFromCache(k) ==
    /\ lookup' = Hit(k)
    /\ nextQid' = nextQid
    /\ clients' = clients
    /\ error' = NoError
    /\ cache' = cache \/ k.fn = "get_username"
    /\ trace' = IF k.fn = "get_username" THEN trace ELSE <<>>
    /\ k.fn = "resolve_table_name" => table_name' = cache[k].val
    /\ k.fn = "fetch_data" => df' = cache[k].val /\ pc' # "start_query_execution"
    /\ k.fn = "get_usernames_batch" => umap' = cache[k].val /\ pc' # "get_username"
    /\ k.fn = "get_username" => umap'[k.args[1]] = cache[k].val

(* The step ran the producer of the key *)
ProducerInvoked(k) ==
    /\ lookup'.key = k
    /\ ~lookup'.hit
    /\ k.fn = "fetch_data" =>
         pc' = "start_query_execution" \/ error' = <<"ClientError", "get_athena_client">>
    /\ k.fn = "get_username" => Cached(cache', k) /\ cache'[k].age = 0
    /\ k.fn = "resolve_table_name" =>
         \/ error' = NoTablesError
         \/ Cached(cache', k) /\ cache'[k].age = 0

(* C6: a call whose key was stored less than the ttl ago (300 for query    *)
(* results, 3600 for the table name and the identifier lookups) is served  *)
(* from the cache without a backend call; a call whose key is not stored   *)
(* or was stored more than the ttl ago runs the producer again.            *)
C6_CacheWindow ==
    [][AtLookup =>
        /\ (Cached(cache, LookupKey) /\ cache[LookupKey].age < Window(LookupKey.fn))
              => ServedFromCache(LookupKey)
        /\ (~Cached(cache, LookupKey) \/ cache[LookupKey].age > Window(LookupKey.fn))
              => ProducerInvoked(LookupKey)]_vars

C6_Witness ==
    /\ runs = 2
    /\ ~refresh
    /\ pc = "fetch_data"
    /\ lookup = Hit(Key("resolve_table_name", <<>>))
    /\ Cached(cache, Key("resolve_table_name", <<>>))
    /\ cache[Key("resolve_table_name", <<>>)].age > 300
    /\ ~Cached(cache, LookupKey)
    /\ \E k \in DOMAIN cache : k.fn = "get_username"

(* C7: in a run where refresh was pressed the cache is empty before the    *)
(* table name is resolved and before any query; the next request for a key *)
(* the refresh dropped, of either ttl class, runs its producer.            *)
C7_RefreshClears ==
    /\ []((refresh /\ pc = "resolve_table_name") => DOMAIN cache = {})
    /\ [][(AtLookup /\ LookupKey \in cleared) => ProducerInvoked(LookupKey)]_vars
    /\ [](\A k \in cleared : ~Cached(cache, k))

C7_Witness ==
    /\ refresh
    /\ pc = "fetch_data"
    /\ LookupKey \in cleared
    /\ \E k \in cleared : k.fn = "get_username"
    /\ lookup = Miss(Key("resolve_table_name", <<>>))

(* The step calls describe_user for the identifier u *)
DescribesUser(u) ==
    /\ pc = "get_username"
    /\ \E i \in (Len(trace) + 1)..Len(trace') :
          trace'[i].api = "describe_user" /\ trace'[i].arg = <<u>>

(* C8: describe_user is called for an identifier only if it was not called *)
(* for it during the last 3600 time units, or a refresh came in between.   *)
C8_OneLookupPerIdentifier ==
    [][\A u \in UserIds : DescribesUser(u) => u \notin DOMAIN looked]_vars

C8_Witness ==
    /\ runs = 2
    /\ ~refresh
    /\ lookup = Hit(Key("get_username", <<"u2">>))
    /\ DOMAIN umap = {"u2", "u3"}
    /\ DOMAIN looked = {"u1", "u2", "u3"}
    /\ looked["u2"] > looked["u3"]

(* The directory path of the last get_username call failed *)
DirectoryFailed ==
    \/ ~lookup.ok
    \/ lookup.answer.error # ""
    \/ /\ lookup.answer.response.UserName \in {None, ""}
       /\ lookup.answer.response.DisplayName \in {None, ""}
       /\ lookup.answer.response.Emails.present
       /\ \/ lookup.answer.response.Emails.list = <<>>
          \/ ~lookup.answer.response.Emails.list[1].dict

(* C9: with a directory configured get_username never raises, and returns  *)
(* the identifier itself whenever the directory path fails.                *)
C9_NeverRaises ==
    (config.IDENTITY_STORE_ID # "" /\ lookup.key.fn = "get_username" /\ ~lookup.hit) =>
        /\ error = NoError
        /\ lookup.key.args[1] \in DOMAIN umap
        /\ DirectoryFailed => umap[lookup.key.args[1]] = lookup.key.args[1]

C9_Witness ==
    /\ config.IDENTITY_STORE_ID # ""
    /\ lookup.key = Key("get_username", <<"u3">>)
    /\ ~lookup.hit
    /\ lookup.ok
    /\ lookup.answer.response.Emails.list = <<BadEmail>>
    /\ umap["u2"] = "alice"
    /\ umap["u3"] = "u3"

Range(q) == {q[i] : i \in 1..Len(q)}

(* C10: with no directory configured every identifier resolves to itself,  *)
(* no directory client is obtained and describe_user is never called; the  *)
(* batch maps every identifier of its input to itself.                     *)
C10_PassThrough ==
    config.IDENTITY_STORE_ID = "" =>
        /\ "identitystore" \notin clients
        /\ \A i \in 1..Len(trace) :
              trace[i].api \notin {"get_identity_store_client", "describe_user"}
        /\ DOMAIN looked = {}
        /\ \A u \in DOMAIN umap : umap[u] = u
        /\ \A k \in DOMAIN cache :
              /\ k.fn = "get_username" => cache[k].val = k.args[1]
              /\ k.fn = "get_usernames_batch" =>
                    /\ DOMAIN cache[k].val = Range(k.args)
                    /\ \A u \in Range(k.args) : cache[k].val[u] = u
        /\ (pc = "idle" /\ runs > 0 /\ error = NoError) => DOMAIN umap = Range(Userids)

C10_Witness ==
    /\ config.IDENTITY_STORE_ID = ""
    /\ pc = "idle"
    /\ error = NoError
    /\ DOMAIN umap = {"u2", "u3"}
    /\ umap["u3"] = "u3"
    /\ lookup = Hit(Key("get_username", <<"u2">>))

----------------------------------------------------------------------------
(* Properties of the helpers                                               *)

Returns == ret # NoReturn

Outcome == ret[1]

Present(v) == v \notin {None, ""}

(* The value of the first listed email address, None when there is none *)
FirstListedEmail(response) ==
    IF ~response.Emails.present THEN None
    ELSE IF response.Emails.list = <<>> THEN None
    ELSE IF ~response.Emails.list[1].dict THEN None
    ELSE response.Emails.list[1].Value

(* C11: on a successful lookup get_username returns the first present of   *)
(* the username, the display name and the value of the first listed email  *)
(* address, and the identifier itself exactly when none of the three is    *)
(* present, whatever a later email entry holds.                            *)
C11_PriorityOrder ==
    (call.fn = "get_username" /\ Returns) =>
        LET r == call.response
            e == FirstListedEmail(r)
        IN  /\ ~Outcome.raised
            /\ Present(r.UserName) => Outcome.val = r.UserName
            /\ (~Present(r.UserName) /\ Present(r.DisplayName))
                  => Outcome.val = r.DisplayName
            /\ (~Present(r.UserName) /\ ~Present(r.DisplayName) /\ Present(e))
                  => Outcome.val = e
            /\ Outcome.val = call.userid
                  <=> (~Present(r.UserName) /\ ~Present(r.DisplayName) /\ ~Present(e))

C11_Witness ==
    /\ call.fn = "get_username"
    /\ call.response = User(None, "", Emails(<<Email(None), Email("b@x.org")>>))
    /\ Returns
    /\ Outcome = Returned(call.userid)

(* C16: a raw result of N >= 1 rows decodes to N-1 rows, rows 2..N in      *)
(* their order, under the backend's column labels in their order, an       *)
(* absent cell becoming the empty string.                                  *)
C16_HeaderDropped ==
    (call.fn = "DataFrame" /\ Returns /\ Len(call.raw.Rows) >= 1) =>
        LET raw == call.raw
            frame == Outcome.val
        IN  /\ ~Outcome.raised
            /\ Len(frame.rows) = Len(raw.Rows) - 1
            /\ Len(frame.columns) = Len(raw.ColumnInfo)
            /\ \A j \in 1..Len(raw.ColumnInfo) : frame.columns[j] = raw.ColumnInfo[j].Label
            /\ \A i \in 2..Len(raw.Rows) :
                  /\ Len(frame.rows[i - 1]) = Len(raw.Rows[i].Data)
                  /\ \A j \in 1..Len(raw.Rows[i].Data) :
                        frame.rows[i - 1][j] =
                            IF raw.Rows[i].Data[j].present
                            THEN raw.Rows[i].Data[j].VarCharValue
                            ELSE ""

C16_Witness ==
    /\ call.fn = "DataFrame"
    /\ Returns
    /\ call.raw.Rows = <<Header("overall"), Row(<<Cell("7"), NullCell>>),
                         Row(<<NullCell, Cell("")>>)>>
    /\ Outcome.val.rows = << <<"7", "">>, <<"", "">> >>

(* A cell that holds nothing: None, the empty or a blank text, 'None' *)
Blank(val) ==
    \/ val = NoneValue
    \/ \A i \in 1..Len(val) : val[i] \in Whitespace
    \/ val = <<"N", "o", "n", "e">>

(* The text is not a number literal at all *)
NotANumber(val) == IF val = NoneValue THEN TRUE ELSE FloatOf(val).raised

(* The text names no number an integer can hold: inf, nan, or a literal    *)
(* beyond every finite value                                               *)
NoInteger(val) ==
    IF NotANumber(val) THEN TRUE ELSE FloatOf(val).val.kind \in {"inf", "nan"}

IsNumber(x, n) == x.kind = "finite" /\ ~x.neg /\ x.exp = 0 /\ x.mant = n

(* C17 as stated: safe_int and safe_float never raise; a blank cell, a     *)
(* text that is no number and, for safe_int, inf, nan and out-of-range     *)
(* literals give the default; '42' gives 42 and safe_int('3.14') gives 3.  *)
C17_NeverRaises ==
    (call.fn \in {"safe_int", "safe_float"} /\ Returns) =>
        /\ ~Outcome.raised
        /\ Blank(call.val) => Outcome.val = call.default
        /\ NotANumber(call.val) => Outcome.val = call.default
        /\ (call.fn = "safe_int" /\ NoInteger(call.val)) => Outcome.val = call.default
        /\ (call.fn = "safe_int" /\ call.val = <<"4", "2">>) => Outcome.val = 42
        /\ (call.fn = "safe_float" /\ call.val = <<"4", "2">>) => IsNumber(Outcome.val, 42)
        /\ (call.fn = "safe_int" /\ call.val = <<"3", ".", "1", "4">>) => Outcome.val = 3

(* What the two functions do: the same, except that safe_int raises        *)
(* OverflowError on a text that float() reads as inf.                      *)
C17_RaisesOnInfinity ==
    (call.fn \in {"safe_int", "safe_float"} /\ Returns) =>
        /\ Outcome.raised <=>
              /\ call.fn = "safe_int"
              /\ ~NotANumber(call.val)
              /\ FloatOf(call.val).val.kind = "inf"
        /\ Outcome.raised => Outcome.val = "OverflowError"
        /\ Blank(call.val) => Outcome = Returned(call.default)
        /\ NotANumber(call.val) => Outcome = Returned(call.default)
        /\ (call.fn = "safe_int" /\ call.val = <<"n", "a", "n">>)
              => Outcome = Returned(call.default)
        /\ (call.fn = "safe_int" /\ call.val = <<"4", "2">>) => Outcome = Returned(42)
        /\ (call.fn = "safe_int" /\ call.val = <<"3", ".", "1", "4">>)
              => Outcome = Returned(3)
        /\ (call.fn = "safe_int" /\ call.val = <<"-", "3", ".", "9", "9">>)
              => Outcome = Returned(0 - 3)

C17_Witness ==
    /\ call.fn = "safe_int"
    /\ call.val = <<"i", "n", "f">>
    /\ Returns
    /\ Outcome = Raised("OverflowError")

----------------------------------------------------------------------------
(* Properties of resolve_table_name                                        *)

TableKey == Key("resolve_table_name", <<>>)

(* The state right after resolve_table_name ran its body *)
Resolving == lookup = Miss(TableKey)

GlueCalls(t) == Calls(t, "get_glue_client") \cup Calls(t, "get_tables")

Listed(t) ==
    IF \E i \in Calls(t, "get_tables") : t[i].out = "ok"
    THEN t[CHOOSE i \in Calls(t, "get_tables") : t[i].out = "ok"].arg
    ELSE <<>>

(* C13: with no override resolve_table_name returns the first listed table *)
(* when there is one; when the listing is empty, or the listing call or    *)
(* the client creation raises, it fails with the one 'no tables found'     *)
(* error, and the backend's own error never reaches the caller.            *)
C13_FirstTableOrNoTables ==
    config.GLUE_TABLE_NAME = "" =>
        /\ error \notin {ClientError("get_glue_client"), ClientError("get_tables")}
        /\ Resolving =>
              /\ GlueCalls(trace) # {}
              /\ Listed(trace) # <<>> =>
                    /\ error = NoError
                    /\ table_name = Listed(trace)[1].Name
                    /\ pc = "fetch_data"
              /\ Listed(trace) = <<>> =>
                    /\ error = <<"No tables found in Glue database", "">>
                    /\ table_name = ""
                    /\ pc = "idle"

C13_Witness ==
    /\ config.GLUE_TABLE_NAME = ""
    /\ Resolving
    /\ trace = <<Event("get_glue_client", <<>>, "ok"), Event("get_tables", <<>>, "error")>>
    /\ error = NoTablesError
    /\ runs = 2

----------------------------------------------------------------------------
(* Properties of the run as a whole                                        *)

Entries(l, what) == {i \in 1..Len(l) : l[i].what = what}

(* The handles submitted in this run for which no terminal status was seen *)
InFlight(l) ==
    {l[i].qid : i \in {x \in Entries(l, "submitted") :
                         ~\E j \in Entries(l, "ended") : j > x /\ l[j].qid = l[x].qid}}

(* The sections main queries, in page order *)
QuerySections ==
    LET idx == {i \in 1..Len(Page) : Page[i].op = "fetch_data"}
        Nth[n \in 0..Len(Page)] ==
            IF n = 0 THEN 0 ELSE CHOOSE i \in idx : i > Nth[n - 1] /\ \A j \in idx : j > Nth[n - 1] => i <= j
    IN  [n \in 1..Cardinality(idx) |-> Page[Nth[n]].section]

(* The entries that start a section's query: a submission or a cache hit *)
Starts(l) == Entries(l, "submitted") \cup Entries(l, "served")

(* C14: within a run at most one query is in flight; a query is submitted  *)
(* only after every earlier query of the run was seen SUCCEEDED and its    *)
(* results were fetched; the sections are queried, or served from the      *)
(* cache, in page order.                                                   *)
C14_NoOverlap ==
    /\ Cardinality(InFlight(runlog)) <= 1
    /\ \A i \in Entries(runlog, "submitted") :
          \A j \in Entries(runlog, "submitted") :
             j < i =>
                /\ runlog[j].qid # runlog[i].qid
                /\ \E e \in Entries(runlog, "ended"), f \in Entries(runlog, "fetched") :
                      /\ j < e /\ e < f /\ f < i
                      /\ runlog[e] = Ended(runlog[j].qid, "SUCCEEDED")
                      /\ runlog[f] = Fetched(runlog[j].qid)
    /\ Cardinality(Starts(runlog)) <= Len(QuerySections)
    /\ \A i \in Starts(runlog) :
          runlog[i].section = QuerySections[Cardinality({j \in Starts(runlog) : j <= i})]
    /\ pc = "start_query_execution" => InFlight(runlog) = {}

C14_Witness ==
    /\ pc = "sleep"
    /\ runlog = <<Submitted("overall", 1), Ended(1, "SUCCEEDED"), Fetched(1),
                  Submitted("top_users", 2)>>
    /\ InFlight(runlog) = {2}

(* C15: an error that leaves resolve_table_name or fetch_data ends the run *)
(* in main's handler; from then on the run submits nothing and no section  *)
(* is rendered, and a run whose table name could not be resolved has       *)
(* submitted no query at all.                                              *)
C15_SingleHandler ==
    /\ [](error # NoError => pc = "idle")
    /\ [](error = NoTablesError => (runlog = <<>> /\ step = 0 /\ qid = 0))
    /\ []((Entries(runlog, "ended") # {} /\ runlog[Len(runlog)].what = "ended"
             /\ runlog[Len(runlog)].section \in {"FAILED", "CANCELLED"})
          => error = QueryFailed(result))
    /\ []((trace # <<>> /\ trace[Len(trace)].out = "error"
             /\ trace[Len(trace)].api \in {"get_athena_client", "start_query_execution",
                                           "get_query_execution", "get_query_results"})
          => error = ClientError(trace[Len(trace)].api))
    /\ [][(error # NoError /\ runs' = runs) =>
            (runlog' = runlog /\ nextQid' = nextQid /\ error' = error /\ step' = step)]_vars
    /\ [][(error = NoError /\ error' # NoError) =>
            (pc' = "idle" /\ runlog' \in {runlog, Append(runlog, Ended(qid, result'.State))}
             /\ nextQid' = nextQid)]_vars

C15_Witness ==
    /\ error = ClientError("start_query_execution")
    /\ step = 2
    /\ pc = "idle"
    /\ runlog = <<Submitted("overall", 1), Ended(1, "SUCCEEDED"), Fetched(1)>>

----------------------------------------------------------------------------
(* Properties of failures and of the age of names                          *)

(* C18: a call of fetch_data or resolve_table_name that raises stores      *)
(* nothing; the next call with the same key, however soon and without a    *)
(* refresh, runs the function again: a new query is submitted under a      *)
(* handle never used before, the listing is asked again.                   *)
C18_FailureNotCached ==
    /\ [][(error = NoError /\ error' # NoError) => cache' = cache]_vars
    /\ [](\A k \in raisers : Cached(cache, k) => cache[k].age >= Window(k.fn))
    /\ [][(AtLookup /\ LookupKey \in raisers) =>
            /\ ProducerInvoked(LookupKey)
            /\ LookupKey.fn = "resolve_table_name" => GlueCalls(trace') # {}]_vars
    /\ [][nextQid' # nextQid =>
            /\ pc = "start_query_execution"
            /\ nextQid' = nextQid + 1
            /\ qid' = nextQid'
            /\ \A i \in 1..Len(runlog) : runlog[i].qid # qid']_vars

C18_Witness ==
    /\ runs = 2
    /\ ~refresh
    /\ step = 1
    /\ pc = "get_query_execution"
    /\ qid = 2
    /\ lookup = Miss(Key("fetch_data", CurrentQuery))
    /\ Cached(cache, TableKey)
    /\ cache[TableKey].age < 300
    /\ raisers = {}

NameKey(u) == Key("get_username", <<u>>)

(* C20: the identifier returned because the lookup raised is stored under  *)
(* the identifier like any name; while that entry is younger than 3600 and *)
(* no refresh came, get_username returns the identifier from it and makes  *)
(* no directory call, whatever the directory would answer now.             *)
C20_FallbackCached ==
    /\ [](\A u \in fallbacks : Cached(cache, NameKey(u)) /\ cache[NameKey(u)].val = u)
    /\ [][\A u \in fallbacks' \ fallbacks :
            /\ pc = "get_username" /\ Head(todo) = u
            /\ ~lookup'.hit
            /\ cache'[NameKey(u)] = [val |-> u, age |-> 0]
            /\ umap'[u] = u]_vars
    /\ [][\A u \in fallbacks :
            (pc = "get_username" /\ Head(todo) = u /\ cache[NameKey(u)].age < 3600) =>
                /\ lookup' = Hit(NameKey(u))
                /\ umap'[u] = u
                /\ trace' = trace
                /\ looked' = looked
                /\ clients' = clients
                /\ u \in fallbacks']_vars
    /\ [][(refresh' /\ runs' # runs) => fallbacks' = {}]_vars

C20_Witness ==
    /\ runs = 2
    /\ ~refresh
    /\ "u2" \in fallbacks
    /\ lookup = Hit(NameKey("u2"))
    /\ umap = [u \in {"u2"} |-> "u2"]
    /\ "u2" \in DOMAIN looked
    /\ looked["u2"] > 0
    /\ cache[NameKey("u2")].age > 300

(* The last lookup was served from the cache of the batches *)
BatchServed == lookup.hit /\ lookup.key.fn = "get_usernames_batch"

(* The oldest a name of the batch just served may be *)
NamesNoOlderThan(limit) ==
    BatchServed => \A u \in DOMAIN born[lookup.key] : born[lookup.key][u] <= limit

(* C19 as stated: every name get_usernames_batch or get_username returns   *)
(* was produced by a directory lookup at most 3600 time units earlier.     *)
C19_NamesWithinWindow ==
    /\ NamesNoOlderThan(3600)
    /\ (lookup.hit /\ lookup.key.fn = "get_username") => cache[lookup.key].age <= 3600

(* What the two layers give: a name returned by get_username is at most    *)
(* 3600 old, a name put into a batch is at most 3600 old when the batch is *)
(* stored, and the batch is served for up to 3600 more: 7200 in all.       *)
C19_NamesWithinTwoWindows ==
    /\ NamesNoOlderThan(7200)
    /\ (lookup.hit /\ lookup.key.fn = "get_username") => cache[lookup.key].age <= 3600
    /\ \A k \in DOMAIN born :
          /\ Cached(cache, k)
          /\ \A u \in DOMAIN born[k] :
                born[k][u] >= cache[k].age /\ born[k][u] - cache[k].age <= 3600

C19_Witness ==
    /\ BatchServed
    /\ runs = 3
    /\ "u2" \in DOMAIN born[lookup.key]
    /\ born[lookup.key]["u2"] > 3600
    /\ umap["u2"] = "alice"
    /\ ~Cached(cache, NameKey("u2"))

====
